---- MODULE Spec2Model ----
(***************************************************************************)
(* Generator transaction engine of theo-boilerplate: the Tree API          *)
(* (docs/adr, "ADR-005: Virtual Filesystem"), the runGenerator pipeline    *)
(* (ADR-003 "Git-First Transparency") and the idempotent generate          *)
(* (ADR-004 "Idempotent Generators").                                      *)
(*                                                                         *)
(* Storage is a map from absolute file locations to text.  Project         *)
(* relative paths are kept in normal form, so join(baseDir, _) is          *)
(* injective on them; one of them climbs out of baseDir with "..".         *)
(* Directories are not modelled: mkdirSync is part of the write step and   *)
(* a storage failure (EACCES and the like) is chosen when commit runs.     *)
(***************************************************************************)
EXTENDS Integers, Sequences, FiniteSets, TLC

\* ---------------------------------------------------------------- bounds
MaxOps == 2     \* tree operations a generator function may perform, all runs together
MaxLen == 2     \* longest text a modifier may be applied to, plus one
MaxRuns == 2    \* runs of runGenerator in one behaviour

\* ------------------------------------------------------- paths and text
\* Project-relative paths in ascending (code unit) order.
PathSeq == <<"../x", "a/b/file.txt", "a/old.txt">>

Paths == {PathSeq[i] : i \in 1..Len(PathSeq)}

PathRank(p) == CHOOSE i \in 1..Len(PathSeq) : PathSeq[i] = p

baseDir == "/proj"

\* path.join(baseDir, p), normalising "..".
join(base, p) ==
    CASE p = "../x"         -> "/x"
      [] p = "a/b/file.txt" -> "/proj/a/b/file.txt"
      [] p = "a/old.txt"    -> "/proj/a/old.txt"

Locs == {join(baseDir, p) : p \in Paths}

\* A location is inside baseDir iff it has baseDir as a directory prefix.
InsideBase(loc) == loc \in {"/proj/a/b/file.txt", "/proj/a/old.txt"}

\* Text is a sequence of characters; null is JavaScript's null (no file).
null == <<"null">>

Texts == {<<>>, <<"A">>}

InitTexts == {<<"A">>}

Modifiers == {"appendB"}

\* modifier(source)
ApplyModifier(f, s) == Append(s, "B")

\* JavaScript falsiness of a `string | null`: null and "" are falsy.
Falsy(v) == v = null \/ v = <<>>

MarkerChoices == {{}, {"a/b/file.txt", "a/old.txt"}}

VARIABLES
    disk,        \* real storage: location -> text or null
    unwritable,  \* locations whose write or unlink threw in the run's commit
    gitClean,    \* isGitClean(): the working copy has no uncommitted change
    options,     \* [force, dryRun]
    markerFiles, \* the generator's declared probes
    changes,     \* Tree.changes: a Map in insertion order, as a sequence of Change
    pc,          \* position of runGenerator
    skipped,     \* generate returned through its "already installed" branch
    outcome,     \* how the run ended
    reported,    \* the change list the run reported
    errors,      \* failure descriptors of the run
    opsLeft,     \* remaining budget of tree operations
    runs,        \* runs started
    lastOp,      \* the last tree operation of the generator function
    disk0,       \* history: storage when the run started
    diskPre,     \* history: storage when commit was entered
    snapshot,    \* history: Tree.changes when commit was entered
    viewPre,     \* history: path -> tree.read(path) when commit was entered
    nApplied,    \* history: records commit went through before returning or throwing
    ioLog,       \* history: storage mutations of this run, in order
    commitCalls, \* history: calls of Tree.commit in this run
    genCalls,    \* history: calls of generator.generate in this run
    gitClean0,   \* history: isGitClean() when the run started
    probesListed, \* the files the skip message of generate lists
    prev,        \* history: how the previous run went
    fArgs        \* history: the arguments the last tree operation passed to a modifier

VARIABLES
    refreshTokenRows, \* table refresh_tokens: rows [token, expired]
    emailTokenRows,   \* table email_tokens: rows [token, type, expired]
    userPassword,     \* users.password of the registered user
    calls,            \* HTTP calls at the API: [op, body, pc, rec, result]
    minted,           \* tokens drawn from randomBytes so far
    localStorage,     \* the browser's [accessToken, refreshToken]
    href,             \* window.location.href
    requests,         \* requests of the web client: [pc, _retry, refreshes, retries]
    pwLog             \* history: the calls whose updatePassword ran, in order

engine == <<disk, unwritable, gitClean, options, markerFiles, changes, pc, skipped,
            outcome, reported, errors, opsLeft, runs, lastOp, disk0, diskPre,
            snapshot, viewPre, nApplied, ioLog, commitCalls, genCalls, gitClean0,
            probesListed, prev, fArgs>>

auth == <<refreshTokenRows, emailTokenRows, userPassword, calls, minted,
          localStorage, href, requests, pwLog>>

vars == <<engine, auth>>

env == <<unwritable, gitClean, markerFiles>>

hist == <<disk0, diskPre, snapshot, viewPre, nApplied, ioLog, commitCalls, gitClean0,
          probesListed, prev>>

\* ------------------------------------------------------------ Tree (ADR-005)
\* Index of the entry of path p in the Map, 0 if there is none.
IndexOf(chs, p) ==
    IF \E i \in 1..Len(chs) : chs[i].path = p
    THEN CHOOSE i \in 1..Len(chs) : chs[i].path = p
    ELSE 0

\* Map.has
Has(chs, p) == IndexOf(chs, p) # 0

\* Map.get
Get(chs, p) == chs[IndexOf(chs, p)]

\* A set that leaves the entry of an existing key as it is.
MapSet_keepsFirst(chs, ch) ==
    IF \E i \in 1..Len(chs) : chs[i].path = ch.path
    THEN chs
    ELSE Append(chs, ch)

\* A set that always adds an entry.
MapSet_appends(chs, ch) == Append(chs, ch)

\* Map.set: an existing key keeps its position, a new key goes last.
MapSet(chs, ch) ==
    IF Has(chs, ch.path)
    THEN [chs EXCEPT ![IndexOf(chs, ch.path)] = ch]
    ELSE Append(chs, ch)

\* existsSync
existsSync(d, loc) == d[loc] # null

\* readFileSync
readFileSync(d, loc) == d[loc]

\* A read that forgets a staged delete and reads through to storage.
read_ignoresDelete(p) ==
    IF Has(changes, p) /\ Get(changes, p).type # "delete"
    THEN Get(changes, p).content
    ELSE IF ~existsSync(disk, join(baseDir, p)) THEN null
         ELSE readFileSync(disk, join(baseDir, p))

\* Tree.read
read(p) ==
    IF Has(changes, p)
    THEN IF Get(changes, p).type = "delete" THEN null ELSE Get(changes, p).content
    ELSE IF ~existsSync(disk, join(baseDir, p)) THEN null
         ELSE readFileSync(disk, join(baseDir, p))

\* Tree.exists
exists(p) ==
    IF Has(changes, p)
    THEN Get(changes, p).type # "delete"
    ELSE existsSync(disk, join(baseDir, p))

\* Tree.getChanges
getChanges == changes

Staging == pc = "staging" /\ opsLeft > 0

\* A write that goes to storage as well as to the overlay.
write_toDisk(p, c) ==
    /\ Staging
    /\ changes' = MapSet(changes, [type |-> "create", path |-> p, content |-> c])
    /\ disk' = [disk EXCEPT ![join(baseDir, p)] = c]
    /\ lastOp' = [op |-> "write", path |-> p, ok |-> TRUE]
    /\ opsLeft' = opsLeft - 1
    /\ UNCHANGED <<env, options, pc, skipped, outcome, reported, errors, runs,
                   hist, genCalls>>
    /\ fArgs' = <<>>
    /\ UNCHANGED auth

\* Tree.write
write(p, c) ==
    /\ Staging
    /\ changes' = MapSet(changes, [type |-> "create", path |-> p, content |-> c])
    /\ lastOp' = [op |-> "write", path |-> p, ok |-> TRUE]
    /\ opsLeft' = opsLeft - 1
    /\ UNCHANGED <<disk, env, options, pc, skipped, outcome, reported, errors, runs,
                   hist, genCalls>>
    /\ fArgs' = <<>>
    /\ UNCHANGED auth

\* A modify that runs the modifier again on its own result.
modify_twice(p, f) ==
    /\ Staging
    /\ LET current == read(p) IN
         IF Falsy(current)
         THEN /\ lastOp' = [op |-> "modify", path |-> p, ok |-> FALSE]
              /\ fArgs' = <<>>
              /\ UNCHANGED auth
              /\ UNCHANGED changes
         ELSE /\ Len(current) < MaxLen
              /\ changes' = MapSet(changes,
                                   [type |-> "modify", path |-> p,
                                    content |-> ApplyModifier(f, ApplyModifier(f, current))])
              /\ lastOp' = [op |-> "modify", path |-> p, ok |-> TRUE]
              /\ fArgs' = <<current, ApplyModifier(f, current)>>
              /\ UNCHANGED auth
    /\ opsLeft' = opsLeft - 1
    /\ UNCHANGED <<disk, env, options, pc, skipped, outcome, reported, errors, runs,
                   hist, genCalls>>

\* Tree.modify
modify(p, f) ==
    /\ Staging
    /\ LET current == read(p) IN
         IF Falsy(current)
         THEN /\ lastOp' = [op |-> "modify", path |-> p, ok |-> FALSE]
              /\ fArgs' = <<>>
              /\ UNCHANGED auth
              /\ UNCHANGED changes
         ELSE /\ Len(current) < MaxLen
              /\ changes' = MapSet(changes, [type |-> "modify", path |-> p,
                                             content |-> ApplyModifier(f, current)])
              /\ lastOp' = [op |-> "modify", path |-> p, ok |-> TRUE]
              /\ fArgs' = <<current>>
              /\ UNCHANGED auth
    /\ opsLeft' = opsLeft - 1
    /\ UNCHANGED <<disk, env, options, pc, skipped, outcome, reported, errors, runs,
                   hist, genCalls>>

\* A delete that drops a staged create instead of recording a delete.
delete_cancelsCreate(p) ==
    /\ Staging
    /\ changes' =
           IF /\ \E i \in 1..Len(changes) : changes[i].path = p
              /\ (CHOOSE r \in {changes[i] : i \in 1..Len(changes)} : r.path = p).type = "create"
           THEN LET k == CHOOSE i \in 1..Len(changes) : changes[i].path = p
                IN [i \in 1..(Len(changes) - 1) |->
                        IF i < k THEN changes[i] ELSE changes[i + 1]]
           ELSE IF \E i \in 1..Len(changes) : changes[i].path = p
                THEN [changes EXCEPT
                          ![CHOOSE i \in 1..Len(changes) : changes[i].path = p] =
                              [type |-> "delete", path |-> p]]
                ELSE Append(changes, [type |-> "delete", path |-> p])
    /\ lastOp' = [op |-> "delete", path |-> p, ok |-> TRUE]
    /\ opsLeft' = opsLeft - 1
    /\ UNCHANGED <<disk, env, options, pc, skipped, outcome, reported, errors, runs,
                   hist, genCalls>>
    /\ fArgs' = <<>>
    /\ UNCHANGED auth

\* Tree.delete
delete(p) ==
    /\ Staging
    /\ changes' = MapSet(changes, [type |-> "delete", path |-> p])
    /\ lastOp' = [op |-> "delete", path |-> p, ok |-> TRUE]
    /\ opsLeft' = opsLeft - 1
    /\ UNCHANGED <<disk, env, options, pc, skipped, outcome, reported, errors, runs,
                   hist, genCalls>>
    /\ fArgs' = <<>>
    /\ UNCHANGED auth

\* A rollback that leaves the staged records where they are.
rollback_keeps ==
    /\ Staging
    /\ UNCHANGED changes
    /\ lastOp' = [op |-> "rollback", path |-> "", ok |-> TRUE]
    /\ opsLeft' = opsLeft - 1
    /\ UNCHANGED <<disk, env, options, pc, skipped, outcome, reported, errors, runs,
                   hist, genCalls>>
    /\ fArgs' = <<>>
    /\ UNCHANGED auth

\* Tree.rollback
rollback ==
    /\ Staging
    /\ changes' = <<>>
    /\ lastOp' = [op |-> "rollback", path |-> "", ok |-> TRUE]
    /\ opsLeft' = opsLeft - 1
    /\ UNCHANGED <<disk, env, options, pc, skipped, outcome, reported, errors, runs,
                   hist, genCalls>>
    /\ fArgs' = <<>>
    /\ UNCHANGED auth

\* A commit loop that writes but never unlinks.
RECURSIVE CommitLoop_keepsDeleted(_, _, _, _, _)
CommitLoop_keepsDeleted(chs, i, d, log, bad) ==
    IF i > Len(chs)
    THEN [disk |-> d, log |-> log, applied |-> i - 1, threw |-> FALSE, at |-> ""]
    ELSE LET change == chs[i]
             fullPath == join(baseDir, change.path)
         IN IF change.type \in {"create", "modify"}
            THEN IF fullPath \in bad
                 THEN [disk |-> d, log |-> log, applied |-> i - 1, threw |-> TRUE,
                       at |-> fullPath]
                 ELSE CommitLoop_keepsDeleted(chs, i + 1,
                                              [d EXCEPT ![fullPath] = change.content],
                                              Append(log, [op |-> "write",
                                                           path |-> change.path,
                                                           loc |-> fullPath]), bad)
            ELSE CommitLoop_keepsDeleted(chs, i + 1, d, log, bad)

\* A commit loop that leaves a file alone when it is already on storage.
RECURSIVE CommitLoop_keepsExisting(_, _, _, _, _)
CommitLoop_keepsExisting(chs, i, d, log, bad) ==
    IF i > Len(chs)
    THEN [disk |-> d, log |-> log, applied |-> i - 1, threw |-> FALSE, at |-> ""]
    ELSE LET change == chs[i]
             fullPath == join(baseDir, change.path)
         IN IF change.type \in {"create", "modify"}
            THEN IF existsSync(d, fullPath)
                 THEN CommitLoop_keepsExisting(chs, i + 1, d, log, bad)
                 ELSE IF fullPath \in bad
                      THEN [disk |-> d, log |-> log, applied |-> i - 1,
                            threw |-> TRUE, at |-> fullPath]
                      ELSE CommitLoop_keepsExisting(
                               chs, i + 1, [d EXCEPT ![fullPath] = change.content],
                               Append(log, [op |-> "write", path |-> change.path,
                                            loc |-> fullPath]), bad)
            ELSE IF existsSync(d, fullPath)
                 THEN IF fullPath \in bad
                      THEN [disk |-> d, log |-> log, applied |-> i - 1,
                            threw |-> TRUE, at |-> fullPath]
                      ELSE CommitLoop_keepsExisting(
                               chs, i + 1, [d EXCEPT ![fullPath] = null],
                               Append(log, [op |-> "unlink", path |-> change.path,
                                            loc |-> fullPath]), bad)
                 ELSE CommitLoop_keepsExisting(chs, i + 1, d, log, bad)

\* The loop of Tree.commit over chs[i..], on storage d with log so far, when
\* the storage calls on the locations in bad throw.  It ends at the first
\* storage call that throws.
RECURSIVE CommitLoop(_, _, _, _, _)
CommitLoop(chs, i, d, log, bad) ==
    IF i > Len(chs)
    THEN [disk |-> d, log |-> log, applied |-> i - 1, threw |-> FALSE, at |-> ""]
    ELSE LET change == chs[i]
             fullPath == join(baseDir, change.path)
         IN IF change.type \in {"create", "modify"}
            THEN IF fullPath \in bad
                 THEN [disk |-> d, log |-> log, applied |-> i - 1, threw |-> TRUE,
                       at |-> fullPath]
                 ELSE CommitLoop(chs, i + 1, [d EXCEPT ![fullPath] = change.content],
                                 Append(log, [op |-> "write", path |-> change.path,
                                             loc |-> fullPath]), bad)
            ELSE IF existsSync(d, fullPath)
                 THEN IF fullPath \in bad
                      THEN [disk |-> d, log |-> log, applied |-> i - 1, threw |-> TRUE,
                            at |-> fullPath]
                      ELSE CommitLoop(chs, i + 1, [d EXCEPT ![fullPath] = null],
                                      Append(log, [op |-> "unlink", path |-> change.path,
                                                  loc |-> fullPath]), bad)
                 ELSE CommitLoop(chs, i + 1, d, log, bad)

\* ------------------------------------------------- generator (ADR-004)
\* A check that is satisfied by one marker file.
checkInstalled_some == \E file \in markerFiles : exists(file)

\* A check that wants at least one marker file.
checkInstalled_nonEmpty == markerFiles # {} /\ \A file \in markerFiles : exists(file)

\* checkInstalled
checkInstalled == \A file \in markerFiles : exists(file)

\* ------------------------------------------------ runGenerator (ADR-003)
\* A gate that --force does not open.
GitCheck_ignoresForce ==
    /\ pc = "start"
    /\ IF ~gitClean
       THEN /\ pc' = "done"
            /\ outcome' = "Aborted"
            /\ errors' = <<[kind |-> "PreconditionFailed", loc |-> ""]>>
       ELSE /\ pc' = "generate"
            /\ UNCHANGED <<outcome, errors>>
    /\ changes' = <<>>
    /\ UNCHANGED <<disk, env, options, skipped, reported, opsLeft, runs, lastOp, hist,
                   genCalls>>
    /\ UNCHANGED fArgs
    /\ UNCHANGED auth

\* A gate that warns about a dirty working copy and goes on.
GitCheck_warnsOnly ==
    /\ pc = "start"
    /\ pc' = "generate"
    /\ errors' = IF ~gitClean /\ ~options.force
                 THEN <<[kind |-> "PreconditionFailed", loc |-> ""]>>
                 ELSE errors
    /\ changes' = <<>>
    /\ UNCHANGED <<disk, env, options, skipped, outcome, reported, opsLeft, runs,
                   lastOp, hist, genCalls>>
    /\ UNCHANGED fArgs
    /\ UNCHANGED auth

\* isGitClean() check, then `new Tree()`.
GitCheck ==
    /\ pc = "start"
    /\ IF ~gitClean /\ ~options.force
       THEN /\ pc' = "done"
            /\ outcome' = "Aborted"
            /\ errors' = <<[kind |-> "PreconditionFailed", loc |-> ""]>>
       ELSE /\ pc' = "generate"
            /\ UNCHANGED <<outcome, errors>>
    /\ changes' = <<>>
    /\ UNCHANGED <<disk, env, options, skipped, reported, opsLeft, runs, lastOp, hist,
                   genCalls>>
    /\ UNCHANGED fArgs
    /\ UNCHANGED auth

\* A generate that skips an installed feature whatever --force says.
generate_ignoresForce ==
    /\ pc = "generate"
    /\ genCalls' = genCalls + 1
    /\ IF checkInstalled
       THEN skipped' = TRUE /\ pc' = "returned" /\ probesListed' = markerFiles
       ELSE skipped' = FALSE /\ pc' = "staging" /\ UNCHANGED probesListed
    /\ UNCHANGED <<disk, env, options, changes, outcome, reported, errors, opsLeft,
                   runs, lastOp, disk0, diskPre, snapshot, viewPre, nApplied, ioLog,
                   commitCalls, gitClean0, prev>>
    /\ UNCHANGED fArgs
    /\ UNCHANGED auth

\* A generate that may run before the git check.
generate_beforeGate ==
    /\ pc \in {"start", "generate"}
    /\ genCalls' = genCalls + 1
    /\ IF checkInstalled /\ ~options.force
       THEN skipped' = TRUE /\ pc' = "returned" /\ probesListed' = markerFiles
       ELSE skipped' = FALSE /\ pc' = "staging" /\ UNCHANGED probesListed
    /\ UNCHANGED <<disk, env, options, changes, outcome, reported, errors, opsLeft,
                   runs, lastOp, disk0, diskPre, snapshot, viewPre, nApplied, ioLog,
                   commitCalls, gitClean0, prev>>
    /\ UNCHANGED fArgs
    /\ UNCHANGED auth

\* A generate whose skip branch lacks its `return`.
generate_noReturn ==
    /\ pc = "generate"
    /\ genCalls' = genCalls + 1
    /\ IF checkInstalled /\ ~options.force
       THEN skipped' = TRUE /\ pc' = "staging" /\ probesListed' = markerFiles
       ELSE skipped' = FALSE /\ pc' = "staging" /\ UNCHANGED probesListed
    /\ UNCHANGED <<disk, env, options, changes, outcome, reported, errors, opsLeft,
                   runs, lastOp, disk0, diskPre, snapshot, viewPre, nApplied, ioLog,
                   commitCalls, gitClean0, prev>>
    /\ UNCHANGED fArgs
    /\ UNCHANGED auth

\* generator.generate(tree, options) up to the end of the installed check.
generate ==
    /\ pc = "generate"
    /\ genCalls' = genCalls + 1
    /\ IF checkInstalled /\ ~options.force
       THEN skipped' = TRUE /\ pc' = "returned" /\ probesListed' = markerFiles
       ELSE skipped' = FALSE /\ pc' = "staging" /\ UNCHANGED probesListed
    /\ UNCHANGED <<disk, env, options, changes, outcome, reported, errors, opsLeft,
                   runs, lastOp, disk0, diskPre, snapshot, viewPre, nApplied, ioLog,
                   commitCalls, gitClean0, prev>>
    /\ UNCHANGED fArgs
    /\ UNCHANGED auth

\* The generator function returns normally.
GenReturn ==
    /\ pc = "staging"
    /\ pc' = "returned"
    /\ UNCHANGED <<disk, env, options, changes, skipped, outcome, reported, errors,
                   opsLeft, runs, lastOp, hist, genCalls>>
    /\ UNCHANGED fArgs
    /\ UNCHANGED auth

\* A pipeline that logs the generator's error and goes on.
GenThrow_thenCommit ==
    /\ pc = "staging"
    /\ pc' = "returned"
    /\ errors' = <<[kind |-> "GeneratorError", loc |-> ""]>>
    /\ UNCHANGED <<disk, env, options, changes, skipped, outcome, reported, opsLeft,
                   runs, lastOp, hist, genCalls>>
    /\ UNCHANGED fArgs
    /\ UNCHANGED auth

\* The generator function throws; runGenerator does not catch.
GenThrow ==
    /\ pc = "staging"
    /\ pc' = "done"
    /\ outcome' = "Aborted"
    /\ errors' = <<[kind |-> "GeneratorError", loc |-> ""]>>
    /\ UNCHANGED <<disk, env, options, changes, skipped, reported, opsLeft, runs,
                   lastOp, hist, genCalls>>
    /\ UNCHANGED fArgs
    /\ UNCHANGED auth

\* A pipeline that never looks at options.dryRun.
DryRunRequested_never == FALSE

\* if (options.dryRun)
DryRunRequested == options.dryRun

\* A preview that applies what it lists.
DryRun_applies ==
    /\ pc = "returned"
    /\ DryRunRequested
    /\ reported' = getChanges
    /\ outcome' = IF skipped THEN "Skipped" ELSE "PreviewedOnly"
    /\ pc' = "done"
    /\ disk' = CommitLoop(changes, 1, disk, ioLog, {}).disk
    /\ UNCHANGED <<env, options, changes, skipped, errors, opsLeft, runs, lastOp,
                   hist, genCalls>>
    /\ UNCHANGED fArgs
    /\ UNCHANGED auth

\* if (options.dryRun) { list tree.getChanges(); return }
DryRun ==
    /\ pc = "returned"
    /\ DryRunRequested
    /\ reported' = getChanges
    /\ outcome' = IF skipped THEN "Skipped" ELSE "PreviewedOnly"
    /\ pc' = "done"
    /\ UNCHANGED <<disk, env, options, changes, skipped, errors, opsLeft, runs, lastOp,
                   hist, genCalls>>
    /\ UNCHANGED fArgs
    /\ UNCHANGED auth

\* What the storage may refuse while commit runs: nothing, or one file
\* under baseDir (EACCES and the like).
UnwritableChoices == {{}} \cup {{l} : l \in {m \in Locs : InsideBase(m)}}

\* Going from storage d to storage e leaves uncommitted changes in the
\* working copy: some file under baseDir was created, modified or removed.
Dirties(d, e) == \E l \in Locs : InsideBase(l) /\ d[l] # e[l]

\* A commit that refuses a tree with nothing staged.
commit_rejectsEmpty ==
    /\ pc = "returned"
    /\ ~DryRunRequested
    /\ \E bad \in UnwritableChoices :
       LET r == CommitLoop(changes, 1, disk, ioLog, bad) IN
         /\ unwritable' = IF r.threw THEN bad ELSE {}
         /\ disk' = r.disk
         /\ ioLog' = r.log
         /\ nApplied' = r.applied
         /\ IF r.threw \/ changes = <<>>
            THEN /\ UNCHANGED changes
                 /\ outcome' = "Aborted"
                 /\ errors' = <<[kind |-> "StorageError", loc |-> r.at]>>
                 /\ UNCHANGED reported
            ELSE /\ changes' = <<>>
                 /\ outcome' = IF skipped THEN "Skipped" ELSE "Applied"
                 /\ reported' = changes'
                 /\ UNCHANGED errors
    /\ diskPre' = disk
    /\ snapshot' = changes
    /\ viewPre' = [p \in Paths |-> read(p)]
    /\ gitClean' = (gitClean /\ ~Dirties(disk, disk'))
    /\ commitCalls' = commitCalls + 1
    /\ pc' = "done"
    /\ UNCHANGED <<markerFiles, options, skipped, opsLeft, runs, lastOp,
                   disk0, genCalls, gitClean0, probesListed, prev>>
    /\ UNCHANGED fArgs
    /\ UNCHANGED auth

\* A commit that does not clear the Map when it is through.
commit_keepsChanges ==
    /\ pc = "returned"
    /\ ~DryRunRequested
    /\ \E bad \in UnwritableChoices :
       LET r == CommitLoop(changes, 1, disk, ioLog, bad) IN
         /\ unwritable' = IF r.threw THEN bad ELSE {}
         /\ disk' = r.disk
         /\ ioLog' = r.log
         /\ nApplied' = r.applied
         /\ UNCHANGED changes
         /\ IF r.threw
            THEN /\ outcome' = "Aborted"
                 /\ errors' = <<[kind |-> "StorageError", loc |-> r.at]>>
                 /\ UNCHANGED reported
            ELSE /\ outcome' = IF skipped THEN "Skipped" ELSE "Applied"
                 /\ reported' = changes'
                 /\ UNCHANGED errors
    /\ diskPre' = disk
    /\ snapshot' = changes
    /\ viewPre' = [p \in Paths |-> read(p)]
    /\ gitClean' = (gitClean /\ ~Dirties(disk, disk'))
    /\ commitCalls' = commitCalls + 1
    /\ pc' = "done"
    /\ UNCHANGED <<markerFiles, options, skipped, opsLeft, runs, lastOp,
                   disk0, genCalls, gitClean0, probesListed, prev>>
    /\ UNCHANGED fArgs
    /\ UNCHANGED auth

\* await tree.commit(), then the report of tree.changes.
commit ==
    /\ pc = "returned"
    /\ ~DryRunRequested
    /\ \E bad \in UnwritableChoices :
       LET r == CommitLoop(changes, 1, disk, ioLog, bad) IN
         /\ unwritable' = IF r.threw THEN bad ELSE {}
         /\ disk' = r.disk
         /\ ioLog' = r.log
         /\ nApplied' = r.applied
         /\ IF r.threw
            THEN /\ UNCHANGED changes
                 /\ outcome' = "Aborted"
                 /\ errors' = <<[kind |-> "StorageError", loc |-> r.at]>>
                 /\ UNCHANGED reported
            ELSE /\ changes' = <<>>
                 /\ outcome' = IF skipped THEN "Skipped" ELSE "Applied"
                 /\ reported' = changes'
                 /\ UNCHANGED errors
    /\ diskPre' = disk
    /\ snapshot' = changes
    /\ viewPre' = [p \in Paths |-> read(p)]
    /\ gitClean' = (gitClean /\ ~Dirties(disk, disk'))
    /\ commitCalls' = commitCalls + 1
    /\ pc' = "done"
    /\ UNCHANGED <<markerFiles, options, skipped, opsLeft, runs, lastOp,
                   disk0, genCalls, gitClean0, probesListed, prev>>
    /\ UNCHANGED fArgs
    /\ UNCHANGED auth

NoOp == [op |-> "none", path |-> "", ok |-> TRUE]

\* What is remembered of the run before: whether it ended Applied and, if
\* so, whether it was forced.  There was no run before the first.
NoRun == [applied |-> FALSE, force |-> FALSE]

\* The paths a change list creates or modifies.
Created(chs) == {chs[i].path : i \in {j \in 1..Len(chs) : chs[j].type # "delete"}}

\* The next invocation of runGenerator on the same project.
NewRun ==
    /\ pc = "done"
    /\ runs < MaxRuns
    /\ runs' = runs + 1
    /\ \E f \in BOOLEAN, d \in BOOLEAN : options' = [force |-> f, dryRun |-> d]
    /\ \E g \in (IF gitClean THEN {FALSE} ELSE BOOLEAN) :
         /\ gitClean' = (gitClean \/ g)
         /\ prev' = IF outcome = "Applied"
                    THEN [applied |-> TRUE, force |-> options.force]
                    ELSE NoRun
    /\ gitClean0' = gitClean'
    /\ probesListed' = {}
    /\ pc' = "start"
    /\ changes' = <<>>
    /\ skipped' = FALSE
    /\ outcome' = "none"
    /\ reported' = <<>>
    /\ errors' = <<>>
    /\ lastOp' = NoOp
    /\ disk0' = disk
    /\ diskPre' = disk
    /\ snapshot' = <<>>
    /\ viewPre' = [p \in Paths |-> null]
    /\ nApplied' = 0
    /\ ioLog' = <<>>
    /\ commitCalls' = 0
    /\ genCalls' = 0
    /\ unwritable' = {}
    /\ UNCHANGED <<disk, markerFiles, opsLeft>>
    /\ fArgs' = <<>>
    /\ UNCHANGED auth

Init ==
    /\ disk \in {d \in [Locs -> InitTexts \cup {null}] :
                  \A l \in Locs : ~InsideBase(l) => d[l] = null}
    /\ unwritable = {}
    /\ gitClean \in BOOLEAN
    /\ options \in [force : BOOLEAN, dryRun : BOOLEAN]
    /\ markerFiles \in MarkerChoices
    /\ changes = <<>>
    /\ pc = "start"
    /\ skipped = FALSE
    /\ outcome = "none"
    /\ reported = <<>>
    /\ errors = <<>>
    /\ opsLeft = MaxOps
    /\ runs = 1
    /\ lastOp = NoOp
    /\ disk0 = disk
    /\ diskPre = disk
    /\ snapshot = <<>>
    /\ viewPre = [p \in Paths |-> null]
    /\ nApplied = 0
    /\ ioLog = <<>>
    /\ commitCalls = 0
    /\ genCalls = 0
    /\ gitClean0 = gitClean
    /\ probesListed = {}
    /\ prev = NoRun
    /\ fArgs = <<>>
    /\ refreshTokenRows = {}
    /\ emailTokenRows = {}
    /\ userPassword = <<"bcrypt", 0>>
    /\ calls = <<>>
    /\ minted = 0
    /\ localStorage = [accessToken |-> null, refreshToken |-> null]
    /\ href = "/"
    /\ requests = <<>>
    /\ pwLog = <<>>

Next ==
    \/ GitCheck
    \/ generate
    \/ \E p \in Paths, c \in Texts : write(p, c)
    \/ \E p \in Paths, f \in Modifiers : modify(p, f)
    \/ \E p \in Paths : delete(p)
    \/ rollback
    \/ GenReturn
    \/ GenThrow
    \/ DryRun
    \/ commit
    \/ NewRun

Spec == Init /\ [][Next]_vars

TypeOK ==
    /\ pc \in {"start", "generate", "staging", "returned", "done"}
    /\ outcome \in {"none", "Applied", "Skipped", "PreviewedOnly", "Aborted"}
    /\ opsLeft \in 0..MaxOps
    /\ runs \in 1..MaxRuns
    /\ gitClean0 \in BOOLEAN
    /\ probesListed \in SUBSET Paths
    /\ prev \in [applied : BOOLEAN, force : BOOLEAN]
    /\ Len(fArgs) <= 1

\* ------------------------------------------------------ reference notions
\* Storage d after every record of chs is applied in sequence order,
\* with no storage failure.
RECURSIVE ApplyAll(_, _)
ApplyAll(chs, d) ==
    IF chs = <<>> THEN d
    ELSE LET ch == Head(chs)
             l == join(baseDir, ch.path)
         IN ApplyAll(Tail(chs),
                     [d EXCEPT ![l] = IF ch.type = "delete" THEN null ELSE ch.content])

HasError(kind) == \E i \in 1..Len(errors) : errors[i].kind = kind

CommitReturned == commitCalls = 1 /\ pc = "done"

CommitThrew == CommitReturned /\ HasError("StorageError")

CommitSucceeded == CommitReturned /\ ~HasError("StorageError")

GatePassed == gitClean0 \/ options.force

\* ------------------------------------------------------------------ C1
\* C1: as long as commit has not been invoked on the run's tree, whatever
\* write, modify, delete and rollback calls were made, storage is what it
\* was before the first call.
C1_StagingIsolation == commitCalls = 0 => disk = disk0

\* Two tree operations have acted, the overlay differs from storage, no commit.
C1_Witness ==
    /\ commitCalls = 0
    /\ opsLeft = 0
    /\ \E p \in Paths : read(p) # disk[join(baseDir, p)]
    /\ \E p \in Paths : Has(changes, p) /\ Get(changes, p).type = "delete"

C3_AllOrNothing ==
    CommitReturned => disk = ApplyAll(snapshot, diskPre) \/ disk = diskPre

C5_DryRunPurity == options.dryRun => commitCalls = 0 /\ disk = disk0

\* A dry run ended with a preview of staged changes.
C5_Witness ==
    /\ pc = "done"
    /\ options.dryRun
    /\ outcome = "PreviewedOnly"
    /\ Len(reported) = 2

C7_PartialStateOnlyFromCommit ==
    pc = "done" =>
        /\ disk # disk0 => outcome = "Applied" \/ CommitThrew
        /\ (\/ outcome \in {"Skipped", "PreviewedOnly"}
            \/ HasError("PreconditionFailed")
            \/ HasError("GeneratorError")
            \/ HasError("SecurityError")) => disk = disk0

\* A commit failed after it had changed storage.
C7_Witness ==
    /\ CommitThrew
    /\ nApplied >= 1
    /\ disk # disk0
    /\ outcome = "Aborted"

\* ------------------------------------------------------------------ C8
\* C8: if an apply step fails, commit applies no further record and its
\* result marks the records applied before the failure as succeeded, one
\* record as failed and the rest as never attempted; storage reflects
\* exactly the succeeded records.
C8_PartialFailureReport ==
    CommitThrew =>
        /\ nApplied < Len(snapshot)
        /\ reported = SubSeq(snapshot, 1, nApplied)
        /\ Len(errors) = 1
        /\ errors[1].loc = join(baseDir, snapshot[nApplied + 1].path)
        /\ disk = ApplyAll(SubSeq(snapshot, 1, nApplied), diskPre)

\* ------------------------------------------------------------------ C9
\* C9: if a staged Create or Modify path resolves outside baseDir, commit
\* fails with SecurityError and performs no storage write or delete.
C9_SecurityErrorBeforeWrite ==
    (/\ CommitReturned
     /\ \E i \in 1..Len(snapshot) :
            /\ snapshot[i].type \in {"create", "modify"}
            /\ ~InsideBase(join(baseDir, snapshot[i].path)))
    => HasError("SecurityError") /\ disk = diskPre /\ ioLog = <<>>

\* ----------------------------------------------------------------- C10
\* C10: commit performs every write before any unlink, the writes in
\* ascending path order and the unlinks in ascending path order, whatever
\* the order in which the records were staged.
C10_CreatesBeforeDeletes ==
    \A i, j \in 1..Len(ioLog) :
        i < j =>
            /\ ~(ioLog[i].op = "unlink" /\ ioLog[j].op = "write")
            /\ ioLog[i].op = ioLog[j].op => PathRank(ioLog[i].path) < PathRank(ioLog[j].path)

\* ----------------------------------------------------------------- C11
\* C11: a run that starts on a dirty working copy with force = false ends
\* Aborted with a PreconditionFailed error as soon as it leaves the gate; the
\* generator is never invoked, nothing is staged, commit is not invoked and
\* storage is unchanged, whatever the probes and dryRun are.
C11_GateAbort ==
    (~gitClean0 /\ ~options.force /\ pc # "start") =>
        /\ pc = "done"
        /\ outcome = "Aborted"
        /\ HasError("PreconditionFailed")
        /\ genCalls = 0
        /\ changes = <<>>
        /\ lastOp = NoOp
        /\ commitCalls = 0
        /\ ioLog = <<>>
        /\ disk = disk0

\* The gate aborted a dry run of a generator whose probes are all on storage.
C11_Witness ==
    /\ pc = "done"
    /\ ~gitClean0
    /\ ~options.force
    /\ options.dryRun
    /\ markerFiles # {}
    /\ \A f \in markerFiles : disk0[join(baseDir, f)] # null
    /\ outcome = "Aborted"
    /\ HasError("PreconditionFailed")

C13_IdempotentSkip ==
    (/\ pc = "done"
     /\ runs >= 2
     /\ prev.applied
     /\ ~prev.force
     /\ ~options.force
     /\ \A f \in markerFiles : disk0[join(baseDir, f)] # null) =>
        /\ outcome = "Skipped"
        /\ ioLog = <<>>
        /\ disk = disk0

\* ----------------------------------------------------------------- C14
\* C14: a run with force = true and dryRun = false that follows a run which
\* ended Applied, and in which neither the generator nor a storage call
\* fails, ends Applied, and every file that was on storage when it started
\* (the files the first run created among them) and that it staged a write
\* for holds the content it staged.
C14_ForceOverwrite ==
    (/\ pc = "done"
     /\ runs >= 2
     /\ prev.applied
     /\ options.force
     /\ ~options.dryRun
     /\ ~HasError("GeneratorError")
     /\ ~HasError("StorageError")) =>
        /\ outcome = "Applied"
        /\ \A p \in Created(snapshot) :
               disk0[join(baseDir, p)] # null =>
                   disk[join(baseDir, p)] = Get(snapshot, p).content

\* The first run created the marker file a/b/file.txt with the empty text
\* (no file is empty before the first run); the forced second run staged
\* another text for it and ended.
C14_Witness ==
    /\ pc = "done"
    /\ runs = 2
    /\ prev.applied
    /\ options.force
    /\ ~options.dryRun
    /\ markerFiles = {"a/b/file.txt", "a/old.txt"}
    /\ disk0["/proj/a/b/file.txt"] = <<>>
    /\ Has(snapshot, "a/b/file.txt")
    /\ Get(snapshot, "a/b/file.txt").content = <<"A">>
    /\ outcome = "Applied"

\* ----------------------------------------------------------------- C15
\* C15: a run with force = true is never stopped by the gate and never takes
\* the already-installed branch: it raises no PreconditionFailed error, it
\* is not Skipped, and once past the gate the generator has been invoked
\* and went on to its generation steps.
C15_ForceBypassesChecks ==
    options.force =>
        /\ ~HasError("PreconditionFailed")
        /\ outcome # "Skipped"
        /\ ~skipped
        /\ pc \in {"staging", "returned", "done"} => genCalls = 1
        /\ pc = "generate" => genCalls = 0 /\ outcome = "none"

\* A forced run on a dirty working copy with both marker files on storage
\* staged a change and applied it.
C15_Witness ==
    /\ pc = "done"
    /\ options.force
    /\ ~gitClean0
    /\ markerFiles = {"a/b/file.txt", "a/old.txt"}
    /\ \A f \in markerFiles : disk0[join(baseDir, f)] # null
    /\ lastOp.op # "none"
    /\ snapshot # <<>>
    /\ outcome = "Applied"

\* ----------------------------------------------------------------- C16
\* C16: when a run with force = false has ended, every file that was on
\* storage when it started is still there with the same content; stated for
\* the runs that found at least one marker file at their start, the
\* installed and the partially installed features.
C16_SafeByDefault ==
    (/\ pc = "done"
     /\ ~options.force
     /\ \E f \in markerFiles : disk0[join(baseDir, f)] # null) =>
        \A l \in Locs : disk0[l] # null => disk[l] = disk0[l]

\* ----------------------------------------------------------------- C17
\* C17: a run that passed the gate, was not skipped, whose generator
\* function returned and that is not a dry run has invoked commit exactly
\* once when it ends; it ends Applied exactly when every staged record was
\* applied, and otherwise Aborted with the applied records reported as
\* succeeded and the record that failed named.
C17_CommitDecidesOutcome ==
    (/\ pc = "done"
     /\ GatePassed
     /\ ~skipped
     /\ ~HasError("GeneratorError")
     /\ ~options.dryRun) =>
        /\ commitCalls = 1
        /\ outcome = "Applied" <=> nApplied = Len(snapshot)
        /\ nApplied < Len(snapshot) =>
               /\ outcome = "Aborted"
               /\ reported = SubSeq(snapshot, 1, nApplied)
               /\ Len(errors) = 1
               /\ errors[1].loc = join(baseDir, snapshot[nApplied + 1].path)

\* ----------------------------------------------------------------- C18
\* C18: once the generator function has thrown, the run is over with
\* outcome Aborted and the generator's error; commit is not invoked, nothing
\* of the tree is reported, written or unlinked, and storage is as at run
\* start, whatever was staged before the failure.
C18_GeneratorFailureAborts ==
    HasError("GeneratorError") =>
        /\ pc = "done"
        /\ outcome = "Aborted"
        /\ Len(errors) = 1
        /\ commitCalls = 0
        /\ reported = <<>>
        /\ ioLog = <<>>
        /\ disk = disk0

\* The generator function threw after staging a write and a delete of an
\* existing file, in a run that was not a dry run.
C18_Witness ==
    /\ HasError("GeneratorError")
    /\ ~options.dryRun
    /\ Len(changes) = 2
    /\ \E i \in 1..2 : changes[i].type = "create"
    /\ \E i \in 1..2 : /\ changes[i].type = "delete"
                       /\ disk[join(baseDir, changes[i].path)] # null

\* ----------------------------------------------------------------- C19
\* C19: a commit of a tree with nothing staged does not fail, reports an
\* empty change list, performs no write and no unlink and leaves storage as
\* it was; the run ends Applied (Skipped when the tree is empty because the
\* feature was found installed).
C19_NoOpCommit ==
    (CommitReturned /\ snapshot = <<>>) =>
        /\ ~HasError("StorageError")
        /\ errors = <<>>
        /\ outcome = IF skipped THEN "Skipped" ELSE "Applied"
        /\ reported = <<>>
        /\ changes = <<>>
        /\ nApplied = 0
        /\ ioLog = <<>>
        /\ disk = diskPre

\* A run that was not skipped committed a tree emptied by rollback.
C19_Witness ==
    /\ CommitReturned
    /\ snapshot = <<>>
    /\ ~skipped
    /\ lastOp.op = "rollback"
    /\ opsLeft = 0
    /\ outcome = "Applied"

\* ----------------------------------------------------------------- C20
\* C20: every step tree.write(p, c) leads to a state where tree.read(p) is c
\* and tree.exists(p) is true, whatever storage holds for p and whatever
\* record was staged for p before the step.
C20_ReadAfterWrite ==
    [][\A p \in Paths, c \in Texts :
           write(p, c) => (read(p))' = c /\ (exists(p))']_vars

\* The last operation wrote the empty text to a path whose file on storage
\* is not empty; the tree reads the empty text and storage is untouched.
C20_Witness ==
    /\ pc = "staging"
    /\ lastOp.op = "write"
    /\ disk[join(baseDir, lastOp.path)] = <<"A">>
    /\ read(lastOp.path) = <<>>
    /\ exists(lastOp.path)
    /\ Len(changes) = 1
    /\ opsLeft = 0

\* ----------------------------------------------------------------- C21
\* C21: a step tree.delete(p) taken when a record staged by tree.write(p, c)
\* is in the overlay leaves no record for p in getChanges().
C21_DeleteCancelsCreate ==
    [][\A p \in Paths :
           (/\ delete(p)
            /\ Has(changes, p)
            /\ Get(changes, p).type = "create")
           => (\A i \in 1..Len(getChanges) : getChanges[i].path # p)']_vars

\* ----------------------------------------------------------------- C22
\* C22: a step tree.modify(p, f) fails exactly when tree.read(p) is null
\* before it (a path holding the empty text is modified); a failing modify
\* leaves the overlay as it was, and a modify that does not fail stages
\* f applied to what tree.read(p) returned.
C22_ModifyNotFound ==
    [][\A p \in Paths, f \in Modifiers :
           modify(p, f) =>
               /\ ~lastOp'.ok <=> read(p) = null
               /\ ~lastOp'.ok => changes' = changes
               /\ lastOp'.ok => (read(p))' = ApplyModifier(f, read(p))]_vars

\* ----------------------------------------------------------------- C23
\* C23: a step tree.modify(p, f) that directly follows tree.write(p, c), on
\* a path absent from storage, leaves exactly one record for p in
\* getChanges(), with content f(c).
C23_WriteThenModify ==
    [][\A p \in Paths, f \in Modifiers :
           (/\ modify(p, f)
            /\ lastOp.op = "write"
            /\ lastOp.path = p
            /\ disk[join(baseDir, p)] = null)
           => /\ Cardinality({i \in 1..Len(getChanges') : getChanges'[i].path = p}) = 1
              /\ Get(getChanges', p).content = ApplyModifier(f, Get(changes, p).content)]_vars

\* ----------------------------------------------------------------- C24
\* C24: in every state the overlay holds at most one record per path and a
\* record has a content field exactly when its type is create or modify;
\* while the generator function runs, the one record of the path of the
\* last successful write, modify or delete is the record of that operation.
C24_OneRecordPerPath ==
    /\ \A i, j \in 1..Len(changes) : changes[i].path = changes[j].path => i = j
    /\ \A i \in 1..Len(changes) :
           /\ changes[i].type \in {"create", "modify", "delete"}
           /\ "content" \in DOMAIN changes[i] <=> changes[i].type \in {"create", "modify"}
    /\ (pc = "staging" /\ lastOp.ok /\ lastOp.op \in {"write", "modify", "delete"}) =>
           /\ Has(changes, lastOp.path)
           /\ Get(changes, lastOp.path).type =
                  CASE lastOp.op = "write" -> "create"
                    [] lastOp.op = "modify" -> "modify"
                    [] lastOp.op = "delete" -> "delete"

\* The first run staged two operations on one path absent from storage, a
\* write and then a modify (modify needs the written content); the overlay
\* holds the one modify record.
C24_Witness ==
    /\ pc = "staging"
    /\ runs = 1
    /\ opsLeft = 0
    /\ Len(changes) = 1
    /\ changes[1].type = "modify"
    /\ disk[join(baseDir, changes[1].path)] = null

\* ----------------------------------------------------------------- C25
\* C25: in every state getChanges() lists the staged records in ascending
\* order of path, so its result depends only on the set of records.
C25_SortedListChanges ==
    \A i, j \in 1..Len(getChanges) :
        i < j => PathRank(getChanges[i].path) < PathRank(getChanges[j].path)

\* ----------------------------------------------------------------- C26
\* C26: in every state checkInstalled is true exactly when every marker
\* file exists in the tree's view, storage with the staged records applied;
\* and the run took the already-installed branch exactly when force was
\* false and every marker file was on storage when generate was called.
C26_AllProbesDetection ==
    /\ checkInstalled <=>
           \A f \in markerFiles : ApplyAll(changes, disk)[join(baseDir, f)] # null
    /\ genCalls = 1 =>
           (skipped <=> /\ ~options.force
                        /\ \A f \in markerFiles : disk0[join(baseDir, f)] # null)

\* Of two marker files one is on storage and the other only staged: the
\* check is true in the tree's view though false on storage, in a run that
\* was not skipped because the second file was missing.
C26_Witness ==
    /\ pc = "staging"
    /\ ~options.force
    /\ markerFiles = {"a/b/file.txt", "a/old.txt"}
    /\ disk["/proj/a/old.txt"] # null
    /\ disk["/proj/a/b/file.txt"] = null
    /\ Has(changes, "a/b/file.txt")
    /\ checkInstalled
    /\ ~skipped

\* ----------------------------------------------------------------- C27
\* C27: right after tree.rollback() the overlay is empty, getChanges() is
\* empty, tree.read and tree.exists give the storage values for every path,
\* and storage is what it was when the run started.
C27_Discard ==
    (pc = "staging" /\ lastOp.op = "rollback") =>
        /\ changes = <<>>
        /\ getChanges = <<>>
        /\ \A p \in Paths :
               /\ read(p) = disk[join(baseDir, p)]
               /\ exists(p) = (disk[join(baseDir, p)] # null)
        /\ disk = disk0

\* The first run called rollback as its second tree operation, with a file
\* on storage.
C27_Witness ==
    /\ pc = "staging"
    /\ runs = 1
    /\ opsLeft = 0
    /\ lastOp.op = "rollback"
    /\ \E l \in Locs : disk[l] # null

\* ----------------------------------------------------------------- C28
\* C28: right after tree.delete(p), tree.exists(p) is false and tree.read(p)
\* is null, whatever storage holds for p and whatever was staged for p
\* before; and after a commit that did not fail, no path whose staged record
\* was a delete is on storage.
C28_DeleteMakesAbsent ==
    /\ (pc = "staging" /\ lastOp.op = "delete") =>
           /\ ~exists(lastOp.path)
           /\ read(lastOp.path) = null
    /\ CommitSucceeded =>
           \A i \in 1..Len(snapshot) :
               snapshot[i].type = "delete" =>
                   disk[join(baseDir, snapshot[i].path)] = null

\* The first run performed two tree operations, the second a delete of a
\* file that was on storage, and its commit of the one delete record
\* succeeded.
C28_Witness ==
    /\ CommitSucceeded
    /\ runs = 1
    /\ opsLeft = 0
    /\ lastOp.op = "delete"
    /\ snapshot = <<[type |-> "delete", path |-> lastOp.path]>>
    /\ diskPre[join(baseDir, lastOp.path)] # null
    /\ disk[join(baseDir, lastOp.path)] = null

\* ----------------------------------------------------------------- C29
\* C29: every write and every unlink a commit performs is on a location
\* under baseDir, and a location outside baseDir is never changed.
C29_Confinement ==
    /\ \A i \in 1..Len(ioLog) : InsideBase(ioLog[i].loc)
    /\ \A l \in Locs : ~InsideBase(l) => disk[l] = disk0[l]

\* ----------------------------------------------------------------- C30
\* C30: after a commit that applied every record, the change list reported
\* for the run is the list getChanges() returned just before the commit,
\* and the overlay is empty.
C30_SuccessReport ==
    CommitSucceeded =>
        /\ reported = snapshot
        /\ changes = <<>>

\* ----------------------------------------------------------------- C31
\* C31 as stated: whenever a run has ended, whatever its outcome, the
\* overlay of its tree is empty.
C31_TreeClearedAtRunEnd == pc = "done" => changes = <<>>

\* C31 amended: every run works on a tree of its own that is empty when
\* generate is called; when the run has ended the overlay is empty if it
\* was stopped at the gate, was skipped or its commit applied every record,
\* and after a failed commit it still holds every record that was staged.
C31_TreePerRun ==
    /\ pc = "generate" => changes = <<>>
    /\ (pc = "done" /\ (HasError("PreconditionFailed") \/ skipped \/ CommitSucceeded))
           => changes = <<>>
    /\ CommitThrew => changes = snapshot /\ snapshot # <<>>

\* A commit applied two staged records and the run ended with an empty
\* overlay.
C31_Witness ==
    /\ CommitSucceeded
    /\ Len(snapshot) = 2
    /\ outcome = "Applied"
    /\ changes = <<>>

\* ----------------------------------------------------------------- C32
\* C32: every step tree.modify(p, f) passes at most one argument to f;
\* when it passes one, that argument is what tree.read(p) returned before
\* the step and the record staged for p after the step is a modify whose
\* content is f of that argument.
C32_TransformCalledOnce ==
    [][\A p \in Paths, f \in Modifiers :
           modify(p, f) =>
               /\ Len(fArgs') <= 1
               /\ fArgs' # <<>> =>
                      /\ fArgs'[1] = read(p)
                      /\ Has(changes', p)
                      /\ Get(changes', p) =
                             [type |-> "modify", path |-> p,
                              content |-> ApplyModifier(f, fArgs'[1])]
                      /\ (read(p))' = ApplyModifier(f, read(p))]_vars

\* The last operation modified a file that is on storage: the modifier got
\* the stored text and its result is staged.
C32_Witness ==
    /\ pc = "staging"
    /\ lastOp.op = "modify"
    /\ lastOp.ok
    /\ fArgs = <<<<"A">>>>
    /\ disk[join(baseDir, lastOp.path)] = <<"A">>
    /\ Get(changes, lastOp.path).content = <<"A", "B">>

MaxCalls == 2

Ids == 1..MaxCalls

undefined == <<"undefined">>

\* The one registered account, and an address nobody registered.
registeredEmail == "user@theoboilerplate.dev"
Emails == {registeredEmail, "nobody@theoboilerplate.dev"}

EmailTokenType == {"EMAIL_VERIFICATION", "PASSWORD_RESET"}

\* The rows the tables hold before any call: one refresh token, one email token.
refreshToken0 == <<"rt", 0>>
emailToken0 == <<"et", 0>>

\* randomBytes(32).toString('hex'): a value no earlier draw produced.
randomBytes(kind, n) == <<kind, n + 1>>

\* bcrypt.hash(newPassword, 12)
hash(password) == <<"bcrypt", password[2]>>

\* An access token the JWT guard accepts: signed by the API and not expired.
AccessValid(token) == Len(token) = 2 /\ token[1] = "jwt" /\ token[2] > 0

\* The properties each DTO declares.
DtoFields(op) ==
    CASE op = "refresh" -> {"refresh_token"}
      [] op = "reset-password" -> {"token", "password"}
      [] op = "forgot-password" -> {"email"}

\* The global ValidationPipe: a property the DTO does not declare is refused
\* (forbidNonWhitelisted), and so is a body without a declared property.
ValidationPipe(op, body) == DOMAIN body = DtoFields(op)

\* Reading a property of a JSON object: undefined when the object has none.
Prop(data, key) == IF key \in DOMAIN data THEN data[key] ELSE undefined

HttpResult(status, data) == {[status |-> status, data |-> data]}
HttpException(status, message) == HttpResult(status, [message |-> <<message>>])

Call(op, body) == [op |-> op, body |-> body, pc |-> "received", rec |-> {}, result |-> {}]

Done(c, result) == [calls EXCEPT ![c].pc = "done", ![c].result = result]

At(c, op, at) == c \in DOMAIN calls /\ calls[c].op = op /\ calls[c].pc = at

\* The bodies a caller of the API sends, each with the fields its DTO declares.
Bodies(c) ==
    {[refresh_token |-> refreshToken0]}
    \cup {[token |-> emailToken0, password |-> <<"pw", c>>]}
    \cup {[email |-> e] : e \in Emails}

OpOf(body) ==
    IF "email" \in DOMAIN body THEN "forgot-password"
    ELSE IF "token" \in DOMAIN body THEN "reset-password"
    ELSE "refresh"

clientState == <<localStorage, href, requests>>
tables == <<refreshTokenRows, emailTokenRows, userPassword, minted, pwLog>>

\* A caller posts a request to the API.
Post(c, body) ==
    /\ c \in Ids \ DOMAIN calls
    /\ requests[c].pc = "none"
    /\ \A b \in Ids : b < c => b \in DOMAIN calls
    /\ calls' = calls @@ (c :> Call(OpOf(body), body))
    /\ UNCHANGED <<tables, clientState, engine>>

\* AuthController: the body goes through the ValidationPipe into the DTO.
Controller(c) ==
    /\ c \in DOMAIN calls
    /\ calls[c].pc = "received"
    /\ calls' = IF ValidationPipe(calls[c].op, calls[c].body)
                  THEN [calls EXCEPT ![c].pc = "find"]
                  ELSE Done(c, HttpException(400, "Bad Request"))
    /\ UNCHANGED <<tables, clientState, engine>>

\* prisma.<table>.delete({ where: { id } }): removes the row, and throws
\* (P2025, record to delete does not exist) when no row has that id.
PrismaDelete_deleteMany(rows, rec) == [threw |-> FALSE, rows |-> rows \ rec]

PrismaDelete(rows, rec) == [threw |-> ~(rec \subseteq rows), rows |-> rows \ rec]

\* An exception no handler of the API maps to a status.
InternalServerError == HttpException(500, "Internal server error")

\* refreshTokens: findUnique by token, then the two checks on the record.
refreshTokens_findUnique(c) ==
    /\ At(c, "refresh", "find")
    /\ LET tokenRecord == {row \in refreshTokenRows :
                              row.token = calls[c].body.refresh_token}
       IN calls' =
            IF tokenRecord = {}
              THEN Done(c, HttpException(401, "Invalid refresh token"))
              ELSE [calls EXCEPT ![c].rec = tokenRecord,
                                 ![c].pc = IF \E row \in tokenRecord : row.expired
                                             THEN "deleteExpired" ELSE "delete"]
    /\ UNCHANGED <<tables, clientState, engine>>

\* refreshTokens: the expired record is deleted, then the call is refused.
refreshTokens_deleteExpired(c) ==
    /\ At(c, "refresh", "deleteExpired")
    /\ LET d == PrismaDelete(refreshTokenRows, calls[c].rec)
       IN /\ refreshTokenRows' = d.rows
          /\ calls' = Done(c, IF d.threw THEN InternalServerError
                              ELSE HttpException(401, "Refresh token expired"))
    /\ UNCHANGED <<emailTokenRows, userPassword, minted, pwLog, clientState, engine>>

\* refreshTokens: the old refresh token is deleted (rotation).
refreshTokens_delete(c) ==
    /\ At(c, "refresh", "delete")
    /\ LET d == PrismaDelete(refreshTokenRows, calls[c].rec)
       IN /\ refreshTokenRows' = d.rows
          /\ calls' = IF d.threw THEN Done(c, InternalServerError)
                      ELSE [calls EXCEPT ![c].pc = "generate"]
    /\ UNCHANGED <<emailTokenRows, userPassword, minted, pwLog, clientState, engine>>

\* createRefreshToken: a row with a random token, valid for seven days.
createRefreshToken(rows, token) == rows \cup {[token |-> token, expired |-> FALSE]}

\* generateTokens: a signed access token and a new stored refresh token.
generateTokens(c) ==
    /\ At(c, "refresh", "generate")
    /\ refreshTokenRows' = createRefreshToken(refreshTokenRows, randomBytes("rt", minted))
    /\ minted' = minted + 1
    /\ calls' = Done(c, HttpResult(200, [access_token |-> randomBytes("jwt", minted),
                                         refresh_token |-> randomBytes("rt", minted)]))
    /\ UNCHANGED <<emailTokenRows, userPassword, pwLog, clientState, engine>>

\* resetPassword: findUnique by token, then the type and the expiry check.
resetPassword_findUnique(c) ==
    /\ At(c, "reset-password", "find")
    /\ LET emailToken == {row \in emailTokenRows : row.token = calls[c].body.token}
       IN calls' =
            IF emailToken = {} \/ \E row \in emailToken : row.type # "PASSWORD_RESET"
              THEN Done(c, HttpException(400, "Invalid reset token"))
            ELSE IF \E row \in emailToken : row.expired
              THEN Done(c, HttpException(400, "Reset token expired"))
            ELSE [calls EXCEPT ![c].rec = emailToken, ![c].pc = "update"]
    /\ UNCHANGED <<tables, clientState, engine>>

\* UsersService.updatePassword: the hash of the new password is stored.
updatePassword(c) ==
    /\ At(c, "reset-password", "update")
    /\ userPassword' = hash(calls[c].body.password)
    /\ pwLog' = Append(pwLog, c)
    /\ calls' = [calls EXCEPT ![c].pc = "delete"]
    /\ UNCHANGED <<refreshTokenRows, emailTokenRows, minted, clientState, engine>>

\* resetPassword: the used token is deleted after the password was stored.
resetPassword_delete(c) ==
    /\ At(c, "reset-password", "delete")
    /\ LET d == PrismaDelete(emailTokenRows, calls[c].rec)
       IN /\ emailTokenRows' = d.rows
          /\ calls' = Done(c, IF d.threw THEN InternalServerError
                              ELSE HttpResult(200, [message |-> <<"Password reset successful">>]))
    /\ UNCHANGED <<refreshTokenRows, userPassword, minted, pwLog, clientState, engine>>

\* UsersService.findByEmail
findByEmail(email) == IF email = registeredEmail THEN {registeredEmail} ELSE {}

\* forgotPassword: the lookup of the account, and the answer when there is none.
forgotPassword_findByEmail(c) ==
    /\ At(c, "forgot-password", "find")
    /\ calls' = IF findByEmail(calls[c].body.email) = {}
                  THEN Done(c, HttpResult(200, [message |-> <<"If email exists, reset link sent">>]))
                  ELSE [calls EXCEPT ![c].pc = "create"]
    /\ UNCHANGED <<tables, clientState, engine>>

\* createEmailToken: a row with a random token of the given type.
createEmailToken(rows, token, type) ==
    rows \cup {[token |-> token, type |-> type, expired |-> FALSE]}

\* forgotPassword: the reset token is stored and returned to the caller.
forgotPassword_createEmailToken(c) ==
    /\ At(c, "forgot-password", "create")
    /\ emailTokenRows' = createEmailToken(emailTokenRows, randomBytes("et", minted),
                                          "PASSWORD_RESET")
    /\ minted' = minted + 1
    /\ calls' = Done(c, HttpResult(200, [message |-> <<"Password reset link sent">>,
                                         token |-> randomBytes("et", minted)]))
    /\ UNCHANGED <<refreshTokenRows, userPassword, pwLog, clientState, engine>>

\* ------------------------------------------------ web client (lib/api.ts)
NoTokens == [accessToken |-> null, refreshToken |-> null]

\* A stored refresh token the API would accept.
RefreshValid(token) == [token |-> token, expired |-> FALSE] \in refreshTokenRows

\* Response interceptor on a 401, up to the POST of /auth/refresh. Without a
\* stored refresh token the catch block runs at once.
interceptor_keepsTokens(r) ==
    /\ r \in Ids
    /\ requests[r].pc = "sent"
    /\ ~requests[r].retry
    /\ LET refreshToken == localStorage.refreshToken
       IN IF Falsy(refreshToken)
            THEN /\ requests' = [requests EXCEPT ![r].retry = TRUE, ![r].pc = "rejected"]
                 /\ UNCHANGED <<localStorage, href, calls>>
            ELSE /\ requests' = [requests EXCEPT ![r].retry = TRUE,
                                                 ![r].pc = "refreshing",
                                                 ![r].refreshes = @ + 1,
                                                 ![r].hadValid = RefreshValid(refreshToken)]
                 /\ calls' = calls @@ (r :> Call("refresh", [refreshToken |-> refreshToken]))
                 /\ UNCHANGED <<localStorage, href>>
    /\ UNCHANGED <<tables, engine>>

interceptor(r) ==
    /\ r \in Ids
    /\ requests[r].pc = "sent"
    /\ ~requests[r].retry
    /\ LET refreshToken == localStorage.refreshToken
       IN IF Falsy(refreshToken)
            THEN /\ requests' = [requests EXCEPT ![r].retry = TRUE, ![r].pc = "rejected"]
                 /\ localStorage' = NoTokens
                 /\ href' = "/login"
                 /\ UNCHANGED calls
            ELSE /\ requests' = [requests EXCEPT ![r].retry = TRUE,
                                                 ![r].pc = "refreshing",
                                                 ![r].refreshes = @ + 1,
                                                 ![r].hadValid = RefreshValid(refreshToken)]
                 /\ calls' = calls @@ (r :> Call("refresh", [refreshToken |-> refreshToken]))
                 /\ UNCHANGED <<localStorage, href>>
    /\ UNCHANGED <<tables, engine>>

\* Response interceptor from the answer of /auth/refresh on: the tokens read
\* from the answer are stored and the request is sent again, its second 401
\* being rejected because _retry is set; a refusal runs the catch block.
interceptor_response(r) ==
    /\ r \in Ids
    /\ requests[r].pc = "refreshing"
    /\ calls[r].result # {}
    /\ LET response == CHOOSE x \in calls[r].result : TRUE
           accessToken == Prop(response.data, "accessToken")
           newRefreshToken == Prop(response.data, "refreshToken")
       IN IF response.status = 200
            THEN /\ localStorage' = [accessToken |-> accessToken,
                                     refreshToken |-> newRefreshToken]
                 /\ requests' = [requests EXCEPT
                                   ![r].retries = @ + 1,
                                   ![r].pc = IF AccessValid(accessToken)
                                               THEN "resolved" ELSE "rejected"]
                 /\ UNCHANGED href
            ELSE /\ localStorage' = NoTokens
                 /\ href' = "/login"
                 /\ requests' = [requests EXCEPT ![r].pc = "rejected"]
    /\ UNCHANGED <<tables, calls, engine>>

\* The API with its two tables filled, the browser holding an expired access
\* token, and the requests of the client already sent with it: the ids above
\* some k are requests of the client, the others are left to callers of the API.
AuthInit ==
    /\ disk = [l \in Locs |-> null]
    /\ unwritable = {}
    /\ gitClean = TRUE
    /\ options = [force |-> FALSE, dryRun |-> FALSE]
    /\ markerFiles = {}
    /\ changes = <<>>
    /\ pc = "start"
    /\ skipped = FALSE
    /\ outcome = "none"
    /\ reported = <<>>
    /\ errors = <<>>
    /\ opsLeft = MaxOps
    /\ runs = 1
    /\ lastOp = NoOp
    /\ disk0 = disk
    /\ diskPre = disk
    /\ snapshot = <<>>
    /\ viewPre = [p \in Paths |-> null]
    /\ nApplied = 0
    /\ ioLog = <<>>
    /\ commitCalls = 0
    /\ genCalls = 0
    /\ gitClean0 = TRUE
    /\ probesListed = {}
    /\ prev = NoRun
    /\ fArgs = <<>>
    /\ refreshTokenRows \in {{[token |-> refreshToken0, expired |-> e]} : e \in BOOLEAN}
    /\ emailTokenRows \in {{[token |-> emailToken0, type |-> t, expired |-> e]} :
                             t \in EmailTokenType, e \in BOOLEAN}
    /\ userPassword = <<"bcrypt", 0>>
    /\ calls = <<>>
    /\ minted = 0
    /\ localStorage \in [accessToken : {<<"jwt", 0>>}, refreshToken : {null, refreshToken0}]
    /\ href = "/"
    /\ \E k \in 0..MaxCalls :
          requests = [r \in Ids |-> [pc |-> IF r > k THEN "sent" ELSE "none",
                                     retry |-> FALSE, refreshes |-> 0,
                                     retries |-> 0, hadValid |-> FALSE]]
    /\ pwLog = <<>>

AuthNext ==
    \/ \E c \in Ids : \E body \in Bodies(c) : Post(c, body)
    \/ \E c \in Ids : Controller(c)
    \/ \E c \in Ids : refreshTokens_findUnique(c)
    \/ \E c \in Ids : refreshTokens_deleteExpired(c)
    \/ \E c \in Ids : refreshTokens_delete(c)
    \/ \E c \in Ids : generateTokens(c)
    \/ \E c \in Ids : resetPassword_findUnique(c)
    \/ \E c \in Ids : updatePassword(c)
    \/ \E c \in Ids : resetPassword_delete(c)
    \/ \E c \in Ids : forgotPassword_findByEmail(c)
    \/ \E c \in Ids : forgotPassword_createEmailToken(c)
    \/ \E r \in Ids : interceptor(r)
    \/ \E r \in Ids : interceptor_response(r)

AuthSpec == AuthInit /\ [][AuthNext]_vars

AuthTypeOK ==
    /\ DOMAIN calls \subseteq Ids
    /\ minted \in 0..MaxCalls
    /\ href \in {"/", "/login"}
    /\ \A r \in Ids : requests[r].pc \in {"none", "sent", "refreshing", "resolved", "rejected"}
    /\ Len(pwLog) <= MaxCalls

\* ---------------------------------------------------------------- claims
\* The call ended by returning a body with status 200.
Returned(c) ==
    /\ c \in DOMAIN calls
    /\ calls[c].pc = "done"
    /\ \E x \in calls[c].result : x.status = 200

\* The call ended with the given status.
Ended(c, status) ==
    /\ c \in DOMAIN calls
    /\ calls[c].pc = "done"
    /\ \E x \in calls[c].result : x.status = status

\* C35: a refresh token is accepted at most once. Of the refreshTokens calls
\* that carry the same stored token, in any interleaving, at most one returns
\* new tokens; once a call returned or refused it as expired, the token is no
\* longer stored; and a call that found the token expired returns no tokens.
C35_RefreshTokenRotation ==
    /\ Cardinality({c \in DOMAIN calls : calls[c].op = "refresh" /\ Returned(c)}) <= 1
    /\ \A c \in DOMAIN calls :
          (calls[c].op = "refresh" /\ calls[c].pc = "done" /\ calls[c].rec # {})
              => calls[c].rec \cap refreshTokenRows = {}
    /\ \A c \in DOMAIN calls :
          (calls[c].op = "refresh" /\ \E row \in calls[c].rec : row.expired)
              => ~Returned(c)

\* Two calls found the same unexpired token; one returned new tokens, the
\* delete of the other threw, and the token is gone while the new one is stored.
C35_Witness ==
    /\ \E c, d \in DOMAIN calls :
          /\ c # d
          /\ calls[c].rec = calls[d].rec
          /\ calls[c].rec = {[token |-> refreshToken0, expired |-> FALSE]}
          /\ Returned(c)
          /\ Ended(d, 500)
    /\ refreshTokenRows = {[token |-> <<"rt", 1>>, expired |-> FALSE]}

\* C36: a password-reset token is used at most once. Of the resetPassword
\* calls that carry the same valid PASSWORD_RESET token, in any interleaving,
\* at most one changes the password; after a successful reset the token is no
\* longer stored; and a token of type EMAIL_VERIFICATION or an expired token
\* changes no password.
C36_SingleUseResetToken ==
    /\ Len(pwLog) <= 1
    /\ \A c \in DOMAIN calls :
          (calls[c].op = "reset-password" /\ Returned(c))
              => calls[c].rec \cap emailTokenRows = {}
    /\ (\E row \in emailTokenRows :
           row.token = emailToken0 /\ (row.type # "PASSWORD_RESET" \/ row.expired))
          => pwLog = <<>> /\ userPassword = <<"bcrypt", 0>>

\* C37: the session survives concurrent 401s. As long as nobody but the web
\* client itself sends the stored refresh token, every request that received
\* a 401 while a valid refresh token was stored is sent again, once, with a
\* fresh access token and resolves, and the interceptor neither clears the
\* tokens in localStorage nor sends the browser to /login.
C37_SessionSurvives401s ==
    (\A c \in DOMAIN calls : calls[c].op = "refresh" => requests[c].pc # "none")
        => \A r \in Ids :
              (requests[r].hadValid /\ requests[r].pc \in {"resolved", "rejected"})
                  => /\ requests[r].pc = "resolved"
                     /\ requests[r].retries = 1
                     /\ localStorage # NoTokens
                     /\ href # "/login"

\* C38: one refresh and one retry per request. In every step, each request has
\* caused at most one POST of /auth/refresh and has been sent again at most
\* once; and a step of the interceptor that finds no refresh token stored, or
\* that receives a refusal of the refresh, removes both tokens from
\* localStorage, sends the browser to /login and rejects the request.
C38_OneRefreshOneRetry ==
    [][\A r \in Ids :
          /\ requests'[r].refreshes <= 1
          /\ requests'[r].retries <= 1
          /\ (requests'[r] # requests[r] /\
              \/ requests[r].pc = "sent" /\ Falsy(localStorage.refreshToken)
              \/ requests[r].pc = "refreshing" /\ ~Returned(r))
                => /\ localStorage' = NoTokens
                   /\ href' = "/login"
                   /\ requests'[r].pc = "rejected"
                   /\ requests'[r].retries = 0]_vars

\* One request was rejected after the API refused its refresh, the other
\* after it found the cleared localStorage; the browser is at /login.
C38_Witness ==
    /\ \E r, q \in Ids :
          /\ requests[r].pc = "rejected" /\ requests[r].refreshes = 1 /\ Ended(r, 400)
          /\ requests[q].pc = "rejected" /\ requests[q].refreshes = 0 /\ requests[q].retry
    /\ localStorage = NoTokens
    /\ href = "/login"

\* C39: forgotPassword does not reveal whether an email is registered. Of any
\* two finished calls, one with the registered address and one with an address
\* nobody registered, the values returned to the callers are the same.
C39_ForgotPasswordUniform ==
    \A c, d \in DOMAIN calls :
        (/\ calls[c].op = "forgot-password" /\ calls[c].pc = "done"
         /\ calls[d].op = "forgot-password" /\ calls[d].pc = "done"
         /\ calls[c].body.email = registeredEmail
         /\ calls[d].body.email # registeredEmail)
            => calls[c].result = calls[d].result

====
